---- MODULE Spec2Model ----
(***************************************************************************)
(* Model of native/src/lib.rs: the napi export                             *)
(*                                                                         *)
(*     pub fn get_version() -> String {                                    *)
(*         env!("CARGO_PKG_VERSION").to_string()                           *)
(*     }                                                                   *)
(*                                                                         *)
(* Strings are sequences of one-character strings.  Memory is a map from   *)
(* addresses to strings: address STATIC holds the literal that env!        *)
(* embedded at compile time, the other addresses are heap buffers owned    *)
(* by the String values the callers hold.                                  *)
(***************************************************************************)
EXTENDS Naturals, Sequences, FiniteSets

VARIABLES manifest, mem, pc, held, returned, first, interfered

vars == <<manifest, mem, pc, held, returned, first, interfered>>

(* ---- bounds ---- *)
NumCallers == 2
MaxHeld == 1

Callers == 1..NumCallers

(* ---- the build ---- *)
V123 == <<"1", ".", "2", ".", "3">>
V0100 == <<"0", ".", "1", "0", ".", "0">>
V000 == <<"0", ".", "0", ".", "0">>

\* The versions a package manifest may declare (semantic versions).
Versions == {V123, V0100}

\* The manifest's version field: {} when the manifest declares none, {v} otherwise.
Manifests == {{}} \cup {{v} : v \in Versions}

\* The value Cargo gives the compiler for CARGO_PKG_VERSION: the declared
\* version, or 0.0.0 for a manifest that declares none.
CargoPkgVersion(m) == IF m = {} THEN V000 ELSE CHOOSE v \in m : TRUE

\* env!("CARGO_PKG_VERSION"): the variable's value at compile time, as a literal.
env(m) == CargoPkgVersion(m)

\* Address of the embedded literal (read-only data).
STATIC == 0

HeapAddrs == 1..(NumCallers * MaxHeld)

\* The buffers caller c's allocations come from.
Arena(c) == {(c - 1) * MaxHeld + i : i \in 1..MaxHeld}

Min(S) == CHOOSE x \in S : \A y \in S : x <= y

\* <str as ToString>::to_string: a new buffer holding a copy of every byte.
to_string_trunc(s) == [i \in 1..(Len(s) - 1) |-> s[i]]
to_string_empty(s) == << >>
to_string(s) == [i \in 1..Len(s) |-> s[i]]

\* The allocator: the caller's lowest free buffer.
alloc(c) == Min(Arena(c) \ DOMAIN mem)

Running == {c \in Callers : pc[c] = "running"}

Init ==
    /\ manifest \in Manifests
    /\ mem = [a \in {STATIC} |-> env(manifest)]
    /\ pc = [c \in Callers |-> "idle"]
    /\ held = [c \in Callers |-> {}]
    /\ returned = {}
    /\ first = {}
    /\ interfered = FALSE

\* What the caller observes when a call ends: the outcome and the string's
\* contents at that moment, with whether another call was in flight and whether
\* the host had changed or dropped an earlier result.  `first` keeps the first
\* call's value.
Return(c, k, v) ==
    /\ returned' = returned \cup {[kind |-> k, value |-> v, after |-> interfered,
                                   overlap |-> (Running \ {c} # {})]}
    /\ first' = IF first = {} THEN {v} ELSE first

\* get_version with the buffer at address a receiving the string s, and the
\* literal left as `lit`.
Body(c, a, s, lit) ==
    /\ mem' = [x \in DOMAIN mem \cup {a} |->
                 IF x = a THEN s ELSE IF x = STATIC THEN lit ELSE mem[x]]
    /\ held' = [held EXCEPT ![c] = @ \cup {a}]
    /\ pc' = [pc EXCEPT ![c] = "idle"]
    /\ Return(c, "Ok", s)
    /\ UNCHANGED <<manifest, interfered>>

\* A caller invokes the exported function.
Call(c) ==
    /\ pc[c] = "idle"
    /\ Cardinality(held[c]) < MaxHeld
    /\ pc' = [pc EXCEPT ![c] = "running"]
    /\ UNCHANGED <<manifest, mem, held, returned, first, interfered>>

\* ---- variants of get_version with a bug, used to test the properties ----

\* Returns a handle on the embedded literal itself instead of a copy.
get_version_shared(c) ==
    /\ pc[c] = "running"
    /\ pc' = [pc EXCEPT ![c] = "idle"]
    /\ held' = [held EXCEPT ![c] = @ \cup {STATIC}]
    /\ Return(c, "Ok", mem[STATIC])
    /\ UNCHANGED <<manifest, mem, interfered>>

\* Appends to a static buffer on every call instead of reading a constant.
get_version_accumulate(c) ==
    /\ pc[c] = "running"
    /\ Body(c, alloc(c), to_string(mem[STATIC]), mem[STATIC] \o env(manifest))

\* Moves the string out of a static (mem::take), leaving it empty.
get_version_take(c) ==
    /\ pc[c] = "running"
    /\ Body(c, alloc(c), to_string(mem[STATIC]), << >>)

\* Fills a shared cache on first use without synchronisation: a call that
\* overlaps another reads the cache before it is written.
get_version_racy(c) ==
    /\ pc[c] = "running"
    /\ Body(c, alloc(c),
            IF Running \ {c} # {} THEN << >> ELSE to_string(mem[STATIC]),
            mem[STATIC])

\* Reads the variable at run time and fails when the manifest declared no version.
get_version_fallible(c) ==
    /\ pc[c] = "running"
    /\ IF manifest = {}
       THEN /\ Return(c, "Err", << >>)
            /\ pc' = [pc EXCEPT ![c] = "idle"]
            /\ UNCHANGED <<manifest, mem, held, interfered>>
       ELSE Body(c, alloc(c), to_string(mem[STATIC]), mem[STATIC])

\* Takes a lock that is held for as long as any other call is in flight.
get_version_blocking(c) ==
    /\ pc[c] = "running"
    /\ Running = {c}
    /\ Body(c, alloc(c), to_string(mem[STATIC]), mem[STATIC])

\* ---- the program ----

\* The body of get_version: allocate a buffer, copy the literal into it and
\* return the String that owns it.  The return type is String, not Result:
\* there is no error outcome, and the literal is only read.
get_version(c) ==
    /\ pc[c] = "running"
    /\ Body(c, alloc(c), to_string(mem[STATIC]), mem[STATIC])

\* The caller owns the String it received: it may change it (String::clear) ...
HostClear(c, a) ==
    /\ a \in held[c]
    /\ mem[a] # << >>
    /\ mem' = [mem EXCEPT ![a] = << >>]
    /\ interfered' = TRUE
    /\ UNCHANGED <<manifest, pc, held, returned, first>>

\* ... or drop it, which frees its buffer.
HostDrop(c, a) ==
    /\ a \in held[c]
    /\ held' = [held EXCEPT ![c] = @ \ {a}]
    /\ mem' = [x \in DOMAIN mem \ {a} |-> mem[x]]
    /\ interfered' = TRUE
    /\ UNCHANGED <<manifest, pc, returned, first>>

Next ==
    \E c \in Callers :
        \/ Call(c)
        \/ get_version(c)
        \/ \E a \in HeapAddrs \cup {STATIC} : HostClear(c, a)
        \/ \E a \in HeapAddrs \cup {STATIC} : HostDrop(c, a)

Spec == Init /\ [][Next]_vars

\* A call that has started runs to its end: it waits on nothing.
FairSpec == Spec /\ \A c \in Callers : WF_vars(get_version(c))

\* ---- properties ----

\* The step in which caller c's call returns.
Returns(c) == pc[c] = "running" /\ pc'[c] = "idle"

\* C1: in a build whose manifest declares version V, every call returned a
\* string equal to V, character for character.
Thm_C1_ReturnsDeclaredVersion ==
    \A v \in manifest : \A r \in returned :
        /\ Len(r.value) = Len(v)
        /\ \A i \in 1..Len(v) : r.value[i] = v[i]

\* A build declaring 1.2.3 in which a call has returned 1.2.3.
Wit_C1_Declared123 ==
    /\ manifest = {V123}
    /\ \E r \in returned : r.value = <<"1", ".", "2", ".", "3">>

\* C2: every call returned a string of length at least 1.
Thm_C2_NonEmpty == \A r \in returned : Len(r.value) >= 1

\* A call has returned the six characters of 0.10.0 and the host has since
\* emptied a string it received.
Wit_C2_ReturnedSixChars ==
    /\ \E r \in returned : Len(r.value) = 6
    /\ \E c \in Callers : \E a \in held[c] : mem[a] = << >>

\* C3: every call returned the same string as the first call, whatever the
\* host did in between.
Thm_C3_SameAsFirstCall == \A f \in first : \A r \in returned : r.value = f

\* Calls have returned both before and after the host changed or dropped a
\* result.
Wit_C3_CallsBeforeAndAfter ==
    /\ first # {}
    /\ \E r1, r2 \in returned : ~r1.after /\ r2.after

Thm_C5_NeverFails == \A r \in returned : r.kind = "Ok"

\* A build whose manifest declares no version, in which a call returned the
\* placeholder 0.0.0.
Wit_C5_PlaceholderReturned ==
    /\ manifest = {}
    /\ \E r \in returned : r.kind = "Ok" /\ r.value = V000

\* C6: no step changes or destroys the embedded literal or the build's
\* metadata, and a call changes nothing but its caller's position and
\* result: every other string, every other caller and the host's record stay
\* as they were.
Thm_C6_NoSideEffects ==
    [][ /\ STATIC \in DOMAIN mem'
        /\ mem'[STATIC] = mem[STATIC]
        /\ manifest' = manifest
        /\ \A c \in Callers :
            Returns(c) =>
                /\ \A a \in DOMAIN mem : a \in DOMAIN mem' /\ mem'[a] = mem[a]
                /\ held[c] \subseteq held'[c]
                /\ \A d \in Callers \ {c} : held'[d] = held[d] /\ pc'[d] = pc[d]
                /\ interfered' = interfered ]_vars

\* After calls, changes and drops the literal still holds the build's version.
Wit_C6_LiteralIntact ==
    /\ mem[STATIC] = env(manifest)
    /\ returned # {}
    /\ interfered
    /\ \E c \in Callers : held[c] = {}

\* C7: a call that has started returns.
Thm_C7_CallCompletes == \A c \in Callers : (pc[c] = "running") ~> (pc[c] = "idle")

\* A call that started while another was in flight has returned, and no call
\* is in flight.
Wit_C7_AllReturned ==
    /\ Running = {}
    /\ \E r \in returned : r.overlap

\* C8: a String a caller holds owns a heap buffer of its own, never the
\* literal and never another caller's buffer, and every call made after the
\* host changed or dropped a result returned the build's version.
Thm_C8_FreshCopy ==
    /\ \A c \in Callers : held[c] \subseteq (HeapAddrs \cap DOMAIN mem)
    /\ \A c, d \in Callers : c # d => held[c] \cap held[d] = {}
    /\ \A r \in returned : r.after => r.value = env(manifest)

\* One caller holds a string it emptied while another holds the version
\* returned by a later call.
Wit_C8_LaterCallUnmodified ==
    /\ \E r \in returned : r.after
    /\ \E c, d \in Callers :
        /\ \E a \in held[c] : mem[a] = << >>
        /\ \E a \in held[d] : mem[a] = env(manifest)

====
